---- MODULE Spec2Model ----
(***************************************************************************)
(* Model of MarkdownBuffer (scripts/markdown_buffer.py): the incremental   *)
(* Markdown-to-HTML renderer.  Strings are sequences of one-character      *)
(* strings; a fragment is such a sequence and a call returns a sequence of *)
(* fragments.                                                              *)
(***************************************************************************)
EXTENDS Integers, Sequences, FiniteSets, TLC

\* ---------------------------------------------------------------- bounds
MaxChunks == 3
MaxFlush == 2
LongLen == 81
MaxPieces == 4

\* ------------------------------------------------------- program constants
LineThreshold == 80
MaxHeaderLevel == 6
None == -1

NL == "\n"
Whitespace == {" ", "\t"}
Digits == <<"0", "1", "2", "3", "4", "5", "6", "7", "8", "9">>
DigitSet == {Digits[i] : i \in 1..10}

\* --------------------------------------------------------- string helpers
Last(s) == s[Len(s)]
Front(s) == SubSeq(s, 1, Len(s) - 1)
Drop(s, n) == SubSeq(s, n + 1, Len(s))
StartsWith(s, p) == Len(s) >= Len(p) /\ SubSeq(s, 1, Len(p)) = p

RECURSIVE Join(_)
Join(frags) == IF frags = <<>> THEN <<>> ELSE Head(frags) \o Join(Tail(frags))

Repeat(c, n) == [i \in 1..n |-> c]

\* length of the longest prefix of s made of characters of set cs
Run(s, cs) ==
  CHOOSE k \in 0..Len(s) :
     /\ \A i \in 1..k : s[i] \in cs
     /\ k = Len(s) \/ s[k + 1] \notin cs

\* str.lstrip()
LStrip(s) == Drop(s, Run(s, Whitespace))

\* str.strip() == '' : only whitespace
IsBlank(s) == \A i \in 1..Len(s) : s[i] \in Whitespace

\* str.split('\n')
Split(s) ==
  LET cuts == {i \in 1..Len(s) : s[i] = NL}
      \* position of the k-th line feed; 0 before the first, Len(s)+1 after the last
      Cut(k) == IF k = 0 THEN 0
                ELSE IF k > Cardinality(cuts) THEN Len(s) + 1
                ELSE CHOOSE i \in cuts : Cardinality({j \in cuts : j < i}) = k - 1
  IN [k \in 1..(Cardinality(cuts) + 1) |-> SubSeq(s, Cut(k - 1) + 1, Cut(k) - 1)]


DigitValue(c) == CHOOSE d \in 0..9 : Digits[d + 1] = c

\* the value of a digit string without leading zeros
RECURSIVE ParseDigits(_)
ParseDigits(ds) == IF ds = <<>> THEN 0 ELSE 10 * ParseDigits(Front(ds)) + DigitValue(Last(ds))
\* int(digits): leading zeros do not count
ParseInt(ds) == ParseDigits(Drop(ds, Run(ds, {"0"})))

\* str(n), n >= 0
RECURSIVE FormatInt(_)
FormatInt(n) == IF n < 10 THEN <<Digits[n + 1]>>
                ELSE FormatInt(n \div 10) \o <<Digits[(n % 10) + 1]>>

\* ------------------------------------------------------- inline formatter
Min(S) == CHOOSE i \in S : \A k \in S : i <= k
\* the positions at which marker m occurs in t
Occurrences(t, m) == {j \in 1..(Len(t) - Len(m) + 1) : SubSeq(t, j, j + Len(m) - 1) = m}

\* re.sub(m (.*?) m, o \1 c, t): the leftmost position where m is followed
\* by a later m matches, up to the nearest such m (non-greedy); the search
\* resumes after the match (non-overlapping)
RECURSIVE ReSub(_, _, _, _)
ReSub(t, m, o, c) ==
  LET occ == Occurrences(t, m)
      opens == {i \in occ : \E j \in occ : j >= i + Len(m)}
  IN IF opens = {} THEN t
     ELSE LET i == Min(opens)
              j == Min({k \in occ : k >= i + Len(m)})
          IN SubSeq(t, 1, i - 1) \o o \o SubSeq(t, i + Len(m), j - 1) \o c
               \o ReSub(Drop(t, j + Len(m) - 1), m, o, c)

StrongOpen == <<"<", "s", "t", "r", "o", "n", "g", ">">>
StrongClose == <<"<", "/", "s", "t", "r", "o", "n", "g", ">">>
EmOpen == <<"<", "e", "m", ">">>
EmClose == <<"<", "/", "e", "m", ">">>

FormatBold(text) == ReSub(text, <<"*", "*">>, StrongOpen, StrongClose)
FormatItalic(text) == ReSub(text, <<"*">>, EmOpen, EmClose)

FormatInline(text) == FormatItalic(FormatBold(text))

\* ------------------------------------------------------------ list stack
TagUlOpen == <<"<", "u", "l", ">">>
TagLi == <<"<", "l", "i", ">">>
TagLiClose == <<"<", "/", "l", "i", ">">>
TagBr == <<"<", "b", "r", ">">>
KindChars(kind) == IF kind = "ol" THEN <<"o", "l">> ELSE <<"u", "l">>
CloseTag(kind) == <<"<", "/">> \o KindChars(kind) \o <<">">>
OlOpen(number) ==
  <<"<", "o", "l", " ", "s", "t", "a", "r", "t", "=", "'">> \o FormatInt(number) \o <<"'", ">">>
LiValue(number) ==
  <<"<", "l", "i", " ", "v", "a", "l", "u", "e", "=", "'">> \o FormatInt(number) \o <<"'", ">">>
HeaderTag(level, content) ==
  <<"<", "h", Digits[level + 1], ">">> \o content \o <<"<", "/", "h", Digits[level + 1], ">">>

Frame(kind, indent, number) == [kind |-> kind, indent |-> indent, lastNumber |-> number]

\* A renderer value: the four fields of the object, plus what a call in
\* progress has produced (result) and whether it has raised.
Renderer(b, cl, ls, ili) ==
  [buffer |-> b, current_line |-> cl, list_stack |-> ls, in_list_item |-> ili,
   result |-> <<>>, raised |-> FALSE, dispatched |-> <<>>]

\* _close_list with a seeded fault: the closing tag is taken from the bottom frame
CloseListFrags_Bottom(st) ==
  IF st.list_stack # <<>>
  THEN <<TagLiClose, CloseTag(Head(st.list_stack).kind)>>
  ELSE <<>>

\* _close_list: pops the top frame; its value is the pair of closing tags
CloseListFrags(st) ==
  IF st.list_stack # <<>>
  THEN <<TagLiClose, CloseTag(Last(st.list_stack).kind)>>
  ELSE <<>>
CloseList(st) ==
  IF st.list_stack # <<>>
  THEN [st EXCEPT !.list_stack = Front(st.list_stack),
                  !.result = st.result \o CloseListFrags(st)]
  ELSE st

\* _close_lists with a seeded fault: 'if' for 'while', only the top frame is closed
CloseLists_TopOnly(st) == CloseList(st)

\* _close_lists: closes every frame, collecting the closing tags
RECURSIVE CloseLists(_)
CloseLists(st) == IF st.list_stack # <<>> THEN CloseLists(CloseList(st)) ELSE st

\* _close_lists_if_needed with a seeded fault: the loop is left out
CloseListsIfNeeded_Skip(st, indent) == st

\* _close_lists_if_needed with a seeded fault: '>=' for '>'
RECURSIVE CloseListsIfNeeded_Inclusive(_, _)
CloseListsIfNeeded_Inclusive(st, indent) ==
  IF st.list_stack # <<>> /\ Last(st.list_stack).indent >= indent
  THEN CloseListsIfNeeded_Inclusive(CloseList(st), indent)
  ELSE st

\* _close_lists_if_needed / the dedent loop of _handle_list_item
RECURSIVE CloseListsIfNeeded(_, _)
CloseListsIfNeeded(st, indent) ==
  IF st.list_stack # <<>> /\ Last(st.list_stack).indent > indent
  THEN CloseListsIfNeeded(CloseList(st), indent)
  ELSE st

\* a callee whose return value the caller throws away: state kept, tags lost
Discard(before, after) == [after EXCEPT !.result = before.result]

\* _handle_list_item
\* the choice of the <li> tag with a seeded fault: an ordered item always
\* carries its number
ItemTag_AlwaysValue(list_type, number, last_number) ==
  IF list_type = "ol" THEN LiValue(number) ELSE TagLi
\* the choice of the <li> tag with a seeded fault: the number is compared
\* with last_number, not with last_number + 1
ItemTag_NoIncrement(list_type, number, last_number) ==
  IF list_type = "ol"
  THEN IF number # last_number THEN LiValue(number) ELSE TagLi
  ELSE TagLi
ItemTag(list_type, number, last_number) ==
  IF list_type = "ol"
  THEN IF number # last_number + 1 THEN LiValue(number) ELSE TagLi
  ELSE TagLi
\* the test of line 136 with a seeded fault: '<=' for '<'
NeedsNewList_SameIndentPushes(st, list_type, indent) ==
  \/ st.list_stack = <<>>
  \/ Last(st.list_stack).indent <= indent
  \/ Last(st.list_stack).kind # list_type
\* the test of line 136 with a seeded fault: a change of kind is not looked at
NeedsNewList_IndentOnly(st, list_type, indent) ==
  \/ st.list_stack = <<>>
  \/ Last(st.list_stack).indent < indent
\* the test of line 136 with a seeded fault: only an empty stack gets a frame
NeedsNewList_EmptyOnly(st, list_type, indent) ==
  st.list_stack = <<>>
NeedsNewList(st, list_type, indent) ==
  \/ st.list_stack = <<>>
  \/ Last(st.list_stack).indent < indent
  \/ Last(st.list_stack).kind # list_type
OpenList(st, list_type, number, indent) ==
  IF NeedsNewList(st, list_type, indent)
  THEN [st EXCEPT
          !.result = st.result \o
                     <<IF list_type = "ol" THEN OlOpen(number) ELSE TagUlOpen>>,
          !.list_stack = Append(st.list_stack,
                     Frame(list_type, indent, IF list_type = "ol" THEN number ELSE None))]
  ELSE st
OpenItem(st, list_type, number) ==
  LET top == Len(st.list_stack)
      last_number == st.list_stack[top].lastNumber
  IN [st EXCEPT
        !.result = st.result \o <<ItemTag(list_type, number, last_number)>>,
        !.list_stack = IF list_type = "ol"
                       THEN [st.list_stack EXCEPT ![top].lastNumber = number]
                       ELSE st.list_stack]
\* _handle_list_item with a seeded fault: in_list_item is not set
HandleListItem_FlagUnset(st, list_type, number, content, indent) ==
  LET s1 == CloseListsIfNeeded(st, indent)
      s2 == OpenList(s1, list_type, number, indent)
      s3 == OpenItem(s2, list_type, number)
  IN [s3 EXCEPT !.result = s3.result \o <<content>>]
\* _handle_list_item with a seeded fault: the dedent loop is left out
HandleListItem_NoDedent(st, list_type, number, content, indent) ==
  LET s2 == OpenList(st, list_type, number, indent)
      s3 == OpenItem(s2, list_type, number)
  IN [s3 EXCEPT !.result = s3.result \o <<content>>, !.in_list_item = TRUE]
HandleListItem(st, list_type, number, content, indent) ==
  LET s1 == CloseListsIfNeeded(st, indent)
      s2 == OpenList(s1, list_type, number, indent)
      s3 == OpenItem(s2, list_type, number)
  IN [s3 EXCEPT !.result = s3.result \o <<content>>, !.in_list_item = TRUE]

\* ----------------------------------------------------- line classifier
\* re.match(r'^#{1,6}\s', s)
IsHeader(s) ==
  \E k \in 1..MaxHeaderLevel :
     /\ Len(s) > k
     /\ \A i \in 1..k : s[i] = "#"
     /\ s[k + 1] \in Whitespace
\* re.match(r'^\d+\.\s', s)
IsOrdered(s) ==
  LET d == Run(s, DigitSet)
  IN d >= 1 /\ Len(s) >= d + 2 /\ s[d + 1] = "." /\ s[d + 2] \in Whitespace
IsUnordered(s) == StartsWith(s, <<"-", " ">>)

Raise(st) == [st EXCEPT !.raised = TRUE]

\* _process_header with a seeded fault: the content is not inline-formatted
ProcessHeader_Unformatted(st, line) ==
  LET closed == Discard(st, CloseLists(st))
      level == Run(line, {"#"})
      text == Drop(line, level + 1)
  IN IF text = <<>> THEN Raise(closed)
     ELSE [closed EXCEPT !.result = closed.result \o <<HeaderTag(level, text)>>]

\* _process_header
ProcessHeader(st, line) ==
  LET closed == Discard(st, CloseLists(st))
      level == Run(line, {"#"})
      text == Drop(line, level + 1)
  IN IF text = <<>> THEN Raise(closed)
     ELSE [closed EXCEPT !.result = closed.result \o <<HeaderTag(level, FormatInline(text))>>]

\* _process_ordered_list_item
ProcessOrderedListItem(st, line, indent) ==
  LET d == Run(line, DigitSet)
      text == Drop(line, d + 2)
  IN IF text = <<>> THEN Raise(st)
     ELSE HandleListItem(st, "ol", ParseInt(SubSeq(line, 1, d)), FormatInline(text), indent)

\* _process_unordered_list_item
ProcessUnorderedListItem(st, line, indent) ==
  HandleListItem(st, "ul", None, FormatInline(Drop(line, 2)), indent)

\* _process_empty_line with a seeded fault: in_list_item is left as it was
ProcessEmptyLine_KeepFlag(st) ==
  [st EXCEPT !.result = st.result \o <<TagBr>>]

\* _process_empty_line with a seeded fault: a blank line closes every open list
ProcessEmptyLine_ClosesLists(st) ==
  LET closed == CloseLists(st)
  IN [closed EXCEPT !.in_list_item = FALSE, !.result = closed.result \o <<TagBr>>]

\* _process_empty_line
ProcessEmptyLine(st) ==
  [st EXCEPT !.in_list_item = FALSE, !.result = st.result \o <<TagBr>>]

\* _process_text with a seeded fault: a continuation line also closes the
\* frames indented deeper than the line
ProcessText_ContinuationCloses(st, line, indent) ==
  LET closed == CloseListsIfNeeded(st, indent)
  IN IF st.in_list_item
     THEN [closed EXCEPT !.in_list_item = FALSE,
                         !.result = closed.result \o << <<" ">> \o FormatInline(line) >>]
     ELSE LET silent == Discard(st, closed)
          IN [silent EXCEPT !.result = silent.result \o <<FormatInline(line)>>]

\* _process_text with a seeded fault: a continuation leaves in_list_item set
ProcessText_KeepFlag(st, line, indent) ==
  IF st.in_list_item
  THEN [st EXCEPT !.result = st.result \o << <<" ">> \o FormatInline(line) >>]
  ELSE LET closed == Discard(st, CloseListsIfNeeded(st, indent))
       IN [closed EXCEPT !.result = closed.result \o <<FormatInline(line)>>]

\* _process_text
ProcessText(st, line, indent) ==
  IF st.in_list_item
  THEN [st EXCEPT !.in_list_item = FALSE,
                  !.result = st.result \o << <<" ">> \o FormatInline(line) >>]
  ELSE LET closed == Discard(st, CloseListsIfNeeded(st, indent))
       IN [closed EXCEPT !.result = closed.result \o <<FormatInline(line)>>]

Classify(line) ==
  LET stripped_line == LStrip(line)
  IN IF IsHeader(stripped_line) THEN "header"
     ELSE IF IsOrdered(stripped_line) THEN "ordered"
     ELSE IF IsUnordered(stripped_line) THEN "unordered"
     ELSE IF IsBlank(stripped_line) THEN "blank"
     ELSE "plain"

\* _process_line with a seeded fault: the line is matched without being stripped
ProcessLine_NoStrip(st, line) ==
  LET indent == Len(line) - Len(LStrip(line))
      class == IF IsHeader(line) THEN "header"
               ELSE IF IsOrdered(line) THEN "ordered"
               ELSE IF IsUnordered(line) THEN "unordered"
               ELSE IF IsBlank(line) THEN "blank"
               ELSE "plain"
  IN CASE class = "header" -> ProcessHeader(st, line)
       [] class = "ordered" -> ProcessOrderedListItem(st, line, indent)
       [] class = "unordered" -> ProcessUnorderedListItem(st, line, indent)
       [] class = "blank" -> ProcessEmptyLine(st)
       [] OTHER -> ProcessText(st, line, indent)

\* _process_line
ProcessLine(st, line) ==
  LET stripped_line == LStrip(line)
      indent == Len(line) - Len(stripped_line)
      class == Classify(line)
  IN CASE class = "header" -> ProcessHeader(st, stripped_line)
       [] class = "ordered" -> ProcessOrderedListItem(st, stripped_line, indent)
       [] class = "unordered" -> ProcessUnorderedListItem(st, stripped_line, indent)
       [] class = "blank" -> ProcessEmptyLine(st)
       [] OTHER -> ProcessText(st, stripped_line, indent)

\* a call of _process_line from add_chunk ("newline": the line's line feed
\* has arrived; "forced": the line outgrew the threshold) or from flush; the
\* call is logged in dispatched, which the code does not have
Dispatch(st, line, by) ==
  ProcessLine([st EXCEPT !.dispatched = Append(st.dispatched, [line |-> line, by |-> by])],
              line)

\* ---------------------------------------------------- chunk accumulator
\* the loop over new_lines[:-1]; an exception leaves the loop at once
RECURSIVE ProcessCompleteLines(_, _)
ProcessCompleteLines(st, lines) ==
  IF lines = <<>> \/ st.raised THEN st
  ELSE LET joined == [st EXCEPT !.current_line = st.current_line \o Head(lines)]
           done == Dispatch(joined, joined.current_line, "newline")
       IN IF done.raised THEN done
          ELSE ProcessCompleteLines([done EXCEPT !.current_line = <<>>], Tail(lines))

\* the forced dispatch with a seeded fault: the overlong line is handed to
\* _process_text as it is, without being classified
ForceDispatch_AsText(st) ==
  IF Len(st.current_line) > LineThreshold
  THEN LET logged == [st EXCEPT !.dispatched =
                        Append(st.dispatched, [line |-> st.current_line, by |-> "forced"])]
           done == ProcessText(logged, LStrip(st.current_line),
                               Len(st.current_line) - Len(LStrip(st.current_line)))
       IN [done EXCEPT !.current_line = <<>>]
  ELSE st

\* the forced dispatch with a seeded fault: current_line is not cleared
ForceDispatch_KeepLine(st) ==
  IF Len(st.current_line) > LineThreshold
  THEN Dispatch(st, st.current_line, "forced")
  ELSE st

ForceDispatch(st) ==
  IF Len(st.current_line) > LineThreshold
  THEN LET done == Dispatch(st, st.current_line, "forced")
       IN IF done.raised THEN done ELSE [done EXCEPT !.current_line = <<>>]
  ELSE st

\* _process_buffer
ProcessBuffer(st) ==
  LET new_lines == Split(st.buffer)
      looped == ProcessCompleteLines(st, Front(new_lines))
  IN IF looped.raised THEN looped
     ELSE ForceDispatch([looped EXCEPT
                           !.current_line = looped.current_line \o Last(new_lines),
                           !.buffer = <<>>])

\* add_chunk, as a function of the renderer
AddChunkTo(st, chunk) ==
  ProcessBuffer([st EXCEPT !.buffer = st.buffer \o chunk, !.result = <<>>, !.raised = FALSE])

\* flush with a seeded fault: the residual line is not cleared
FlushOf_KeepLine(st) ==
  LET s0 == [st EXCEPT !.result = <<>>, !.raised = FALSE]
      s1 == IF s0.current_line # <<>> THEN Dispatch(s0, s0.current_line, "flush") ELSE s0
  IN IF s1.raised THEN s1 ELSE CloseLists(s1)

\* flush, as a function of the renderer
FlushOf(st) ==
  LET s0 == [st EXCEPT !.result = <<>>, !.raised = FALSE]
      s1 == IF s0.current_line # <<>> THEN Dispatch(s0, s0.current_line, "flush") ELSE s0
  IN IF s1.raised THEN s1
     ELSE [CloseLists(s1) EXCEPT !.current_line = <<>>]

\* ------------------------------------------------------------ state
VARIABLES
  buffer,        \* self.buffer
  current_line,  \* self.current_line
  list_stack,    \* self.list_stack, bottom first
  in_list_item,  \* self.in_list_item
  calls,         \* history: one record per call made on the object
  pieces,        \* formatter check: the pieces the line is made of
  formatted,     \* formatter check: the value of _format_inline
  fmtDone        \* formatter check: _format_inline has run

vars == <<buffer, current_line, list_stack, in_list_item, calls, pieces, formatted, fmtDone>>
fmtVars == <<pieces, formatted, fmtDone>>

Self == Renderer(buffer, current_line, list_stack, in_list_item)

\* the chunks a caller may pass
LongChunk == Repeat("x", LongLen)
\* an ordered-item marker of LongLen characters with no text: 0...01, '.', ' '
LongOrdered == Repeat("0", LongLen - 3) \o <<"1", ".", " ">>
\* the leading whitespace of a line, LongLen characters of it
LongBlank == Repeat(" ", LongLen)
Chunks ==
  { <<"-", " ", "a", NL>>,
    <<"-", " ", "b", NL>>,
    <<" ", " ", "-", " ", "b", NL>>,
    <<"1", ".", " ", "a", NL>>,
    <<"3", ".", " ", "b", NL>>,
    <<"4", ".", " ", "c", NL>>,
    <<"#", " ", "T", NL>>,
    <<"#", "#", " ", "*", "T", "*", NL>>,
    <<"t", NL>>,
    <<NL>>,
    <<" ", NL>>,
    <<NL, NL>>,
    <<"#", " ">>,
    <<"-", " ">>,
    <<"4", ".", " ">>,
    <<" ", "c">>,
    LongChunk,
    <<>>,
    <<"#", " ", NL, "t", NL>>,
    <<"t", NL, "#", " ">>,
    LongOrdered,
    LongBlank }

NumCalls(op) == Cardinality({i \in 1..Len(calls) : calls[i].op = op})

\* __init__
Init ==
  /\ buffer = <<>>
  /\ current_line = <<>>
  /\ list_stack = <<>>
  /\ in_list_item = FALSE
  /\ calls = <<>>
  /\ pieces = <<>>
  /\ formatted = <<>>
  /\ fmtDone = FALSE

\* a call leaves the object as the code left it, also when it raised
Called(op, chunk, after) ==
  /\ buffer' = after.buffer
  /\ current_line' = after.current_line
  /\ list_stack' = after.list_stack
  /\ in_list_item' = after.in_list_item
  /\ calls' = Append(calls, [op |-> op, chunk |-> chunk, before |-> Self,
                             ret |-> IF after.raised THEN <<>> ELSE after.result,
                             raised |-> after.raised,
                             dispatched |-> after.dispatched])
  /\ UNCHANGED fmtVars

\* add_chunk(chunk); the caller feeds chunks until it flushes
AddChunk(chunk) ==
  /\ NumCalls("add_chunk") < MaxChunks
  /\ NumCalls("flush") = 0
  /\ Called("add_chunk", chunk, AddChunkTo(Self, chunk))

\* flush()
Flush ==
  /\ NumCalls("flush") < MaxFlush
  /\ Called("flush", <<>>, FlushOf(Self))

Next == (\E chunk \in Chunks : AddChunk(chunk)) \/ Flush

Spec == Init /\ [][Next]_vars

\* ------------------------------------------------------- history views
\* every fragment returned so far, in emission order
RECURSIVE Returned(_)
Returned(cs) == IF cs = <<>> THEN <<>> ELSE Returned(Front(cs)) \o Last(cs).ret
Out == Returned(calls)
\* the whole text fed so far
RECURSIVE Fed(_)
Fed(cs) == IF cs = <<>> THEN <<>> ELSE Fed(Front(cs)) \o Last(cs).chunk
Text == Fed(calls)
NoRaise == \A i \in 1..Len(calls) : ~calls[i].raised
Flushed == calls # <<>> /\ Last(calls).op = "flush"
\* add_chunk calls followed by exactly one flush
FlushedOnce == Flushed /\ NumCalls("flush") = 1

\* the state of the object after call i
After(i) == IF i = Len(calls) THEN Self ELSE calls[i + 1].before
\* call i consumed exactly one newline-terminated line, and nothing else
OneLine(i) ==
  LET c == calls[i]
      fed == c.before.current_line \o c.chunk
  IN /\ c.op = "add_chunk"
     /\ c.before.buffer = <<>>
     /\ fed # <<>>
     /\ Last(fed) = NL
     /\ \A k \in 1..(Len(fed) - 1) : fed[k] # NL
LineOf(i) == Front(calls[i].before.current_line \o calls[i].chunk)

\* ------------------------------------------------ formatter on its own
Bold(x) == <<"*", "*">> \o x \o <<"*", "*">>
Ital(y) == <<"*">> \o y \o <<"*">>
WordX == <<"h", "i">>
WordY == <<"t", "h", "e", "r", "e">>
PlainPieces == {<<"a">>, <<" ">>}
PairPieces == {Bold(WordX), Ital(WordY)}
Pieces == PlainPieces \cup PairPieces \cup {<<"*">>}
PieceSeqs == UNION {[1..n -> Pieces] : n \in 0..MaxPieces}

InitFmt ==
  /\ buffer = <<>>
  /\ current_line = <<>>
  /\ list_stack = <<>>
  /\ in_list_item = FALSE
  /\ calls = <<>>
  /\ pieces \in PieceSeqs
  /\ formatted = <<>>
  /\ fmtDone = FALSE

\* self._format_inline(line) on the line made of the pieces
FormatLine ==
  /\ ~fmtDone
  /\ formatted' = FormatInline(Join(pieces))
  /\ fmtDone' = TRUE
  /\ UNCHANGED <<buffer, current_line, list_stack, in_list_item, calls, pieces>>

NextFmt == FormatLine

SpecFmt == InitFmt /\ [][NextFmt]_vars

TypeOK ==
  /\ in_list_item \in BOOLEAN
  /\ \A i \in 1..Len(list_stack) : list_stack[i].kind \in {"ol", "ul"}

\* ================================================================ claims
\* calls only grows, and every prefix of it is the history of a reachable
\* state: what holds of the latest call in every reachable state holds of every
\* call of every run
Latest == IF calls = <<>> THEN {} ELSE {Len(calls)}
IsListOpen(f) == f = TagUlOpen \/ StartsWith(f, <<"<", "o", "l", " ">>)
IsListClose(f) == f = CloseTag("ul") \/ f = CloseTag("ol")
IsLiOpen(f) == f = TagLi \/ StartsWith(f, <<"<", "l", "i", " ">>)
CountIf(frags, P(_)) == Cardinality({i \in 1..Len(frags) : P(frags[i])})
NoStar(t) == \A i \in 1..Len(t) : t[i] # "*"

\* C1: after add_chunk calls followed by flush(), all returning normally,
\* as many list-opening tags (<ul>, <ol start='N'>) have been emitted as
\* list-closing tags (</ul>, </ol>).
C1_ListTagBalance ==
  (FlushedOnce /\ NoRaise) => CountIf(Out, IsListOpen) = CountIf(Out, IsListClose)

\* C2: after add_chunk calls followed by flush(), all returning normally,
\* as many <li> / <li value='N'> fragments have been emitted as </li>
\* fragments.
C2_LiBalance ==
  (FlushedOnce /\ NoRaise) => CountIf(Out, IsLiOpen) = CountIf(Out, LAMBDA f : f = TagLiClose)

\* the fragments of feeding text t as one chunk to a new object and flushing
WholeOutput(t) ==
  LET fresh == Renderer(<<>>, <<>>, <<>>, FALSE)
      added == AddChunkTo(fresh, t)
      flushed == FlushOf(added)
  IN IF added.raised \/ flushed.raised THEN <<"raised">>
     ELSE added.result \o flushed.result

\* C3: chunk-boundary invariance: for a text without '*', the fragments of
\* any partition into chunks, flush included, concatenate to the same string
\* as the fragments of the text fed as one chunk, long lines included.
C3_ChunkBoundaryInvariance ==
  (FlushedOnce /\ NoRaise /\ NoStar(Text)) => Join(Out) = Join(WholeOutput(Text))

\* C4: flush idempotence: a flush() that directly follows a flush() that
\* returned normally returns an empty sequence and leaves buffer,
\* current_line, list_stack and in_list_item as they were.
C4_FlushIdempotent ==
  \A i \in Latest \ {1} :
     (calls[i].op = "flush" /\ calls[i - 1].op = "flush" /\ ~calls[i - 1].raised)
       => /\ ~calls[i].raised
          /\ calls[i].ret = <<>>
          /\ After(i) = calls[i].before
\* a second flush after a first one that had a residual line and a list to close
C4_Witness ==
  /\ Len(calls) >= 3
  /\ calls[Len(calls)].op = "flush"
  /\ calls[Len(calls) - 1].op = "flush"
  /\ ~calls[Len(calls) - 1].raised
  /\ calls[Len(calls) - 1].before.current_line # <<>>
  /\ calls[Len(calls) - 1].before.list_stack # <<>>
  /\ calls[Len(calls) - 1].ret # <<>>

\* the closing pairs of a stack, top frame first: </li> then the frame's own tag
ClosingPairs(stack) ==
  [k \in 1..(2 * Len(stack)) |->
     IF k % 2 = 1 THEN TagLiClose
     ELSE CloseTag(stack[Len(stack) + 1 - (k \div 2)].kind)]
\* the object once flush has dispatched the residual line of call i, if any
Residual(i) ==
  LET b == calls[i].before
  IN IF b.current_line # <<>> THEN ProcessLine(b, b.current_line) ELSE b

\* C5: a flush() that returns has dispatched a non-empty current_line once,
\* then emitted one </li></tag> pair for every frame still on the stack, and
\* leaves list_stack and current_line empty.
C5_FlushDrains ==
  \A i \in Latest :
     (calls[i].op = "flush" /\ ~calls[i].raised)
       => /\ calls[i].ret = Residual(i).result \o ClosingPairs(Residual(i).list_stack)
          /\ After(i).list_stack = <<>>
          /\ After(i).current_line = <<>>
\* a flush with a residual line that left two frames to close
C5_Witness ==
  /\ Flushed
  /\ ~Last(calls).raised
  /\ Last(calls).before.current_line # <<>>
  /\ Len(Residual(Len(calls)).list_stack) >= 2
  /\ list_stack = <<>>

UlItemA == <<"-", " ", "a", NL>>
UlItemB == <<"-", " ", "b", NL>>
\* the expected rendering of sibling unordered items: <ul>, <li>x</li> each, </ul>
RECURSIVE SiblingItems(_)
SiblingItems(cs) ==
  IF cs = <<>> THEN <<>>
  ELSE SiblingItems(Front(cs)) \o TagLi \o <<Last(cs).chunk[3]>> \o TagLiClose

\* C6: k >= 1 unordered items '- x' at indent 0, each newline-terminated,
\* then flush(): the output is <ul>, then <li>x</li> per item in order, then
\* </ul>.
C6_SiblingItems ==
  (/\ FlushedOnce
   /\ Len(calls) >= 2
   /\ \A i \in 1..(Len(calls) - 1) : calls[i].chunk \in {UlItemA, UlItemB})
    => Join(Out) = TagUlOpen \o SiblingItems(Front(calls)) \o CloseTag("ul")

\* the ordered item "N. c\n" read from a chunk of one digit
IsOlItem(chunk) ==
  Len(chunk) = 5 /\ chunk[1] \in DigitSet /\ chunk[2] = "." /\ chunk[3] = " " /\ chunk[5] = NL
OlNumber(chunk) == DigitValue(chunk[1])
ScenarioC ==
  <<"<", "o", "l", " ", "s", "t", "a", "r", "t", "=", "'", "1", "'", ">",
    "<", "l", "i", ">", "a", "<", "/", "l", "i", ">",
    "<", "l", "i", " ", "v", "a", "l", "u", "e", "=", "'", "3", "'", ">", "b",
    "<", "/", "l", "i", ">", "<", "/", "o", "l", ">">>

\* C7: an ordered item N that opens a new <ol start='N'> is emitted with a
\* plain <li>; a later item M of the same frame gets <li value='M'> exactly
\* when M is not the previous number plus one; "1. a\n3. b\n" then flush()
\* gives <ol start='1'><li>a</li><li value='3'>b</li></ol>.
C7_OrderedNumbering ==
  /\ \A i \in 1..Len(calls) :
       (OneLine(i) /\ calls[i].before.current_line = <<>> /\ IsOlItem(calls[i].chunk))
         => LET n == OlNumber(calls[i].chunk)
                stack == calls[i].before.list_stack
                ret == calls[i].ret
                opens == \E k \in 1..Len(ret) : ret[k] = OlOpen(n)
                valued == \E k \in 1..Len(ret) : ret[k] = LiValue(n)
                plain == \E k \in 1..Len(ret) : ret[k] = TagLi
            IN /\ opens => (plain /\ ~valued)
               /\ (stack # <<>> /\ Last(stack).kind = "ol" /\ Last(stack).indent = 0)
                    => /\ valued <=> n # Last(stack).lastNumber + 1
                       /\ plain <=> n = Last(stack).lastNumber + 1
  /\ (FlushedOnce /\ NoRaise
      /\ Text = <<"1", ".", " ", "a", NL, "3", ".", " ", "b", NL>>)
       => Join(Out) = ScenarioC

ScenarioD ==
  <<"<", "u", "l", ">", "<", "l", "i", ">", "a",
    "<", "u", "l", ">", "<", "l", "i", ">", "b",
    "<", "/", "l", "i", ">", "<", "/", "u", "l", ">",
    "<", "/", "l", "i", ">", "<", "/", "u", "l", ">">>
StrictlyNested(stack) ==
  \A j \in 1..(Len(stack) - 1) : stack[j].indent < stack[j + 1].indent

\* C8: flush() on nested frames f1 (outermost) .. fn (innermost) opened by
\* items of strictly increasing indent emits the closing pairs innermost
\* first, </li></kind(fn)> ... </li></kind(f1)>; "- a\n  - b\n" then flush()
\* gives <ul><li>a<ul><li>b</li></ul></li></ul>.
C8_NestedClosingOrder ==
  /\ \A i \in Latest :
       (/\ calls[i].op = "flush"
        /\ calls[i].before.current_line = <<>>
        /\ StrictlyNested(calls[i].before.list_stack))
         => LET stack == calls[i].before.list_stack
            IN /\ Len(calls[i].ret) = 2 * Len(stack)
               /\ \A j \in 1..Len(stack) :
                    /\ calls[i].ret[2 * j - 1] = <<"<", "/", "l", "i", ">">>
                    /\ calls[i].ret[2 * j] =
                         <<"<", "/">> \o KindChars(stack[Len(stack) + 1 - j].kind) \o <<">">>
  /\ (FlushedOnce /\ Text = <<"-", " ", "a", NL, " ", " ", "-", " ", "b", NL>>)
       => Join(Out) = ScenarioD
\* a flush that closed an inner <ul> before the outer <ol>
C8_Witness ==
  /\ Flushed
  /\ Last(calls).before.current_line = <<>>
  /\ Len(Last(calls).before.list_stack) = 2
  /\ Last(calls).before.list_stack[1].kind = "ol"
  /\ Last(calls).before.list_stack[2].kind = "ul"
  /\ Last(calls).before.list_stack[1].indent < Last(calls).before.list_stack[2].indent
  /\ Last(calls).ret = <<TagLiClose, CloseTag("ul"), TagLiClose, CloseTag("ol")>>

\* C9: a newline-terminated line made of leading whitespace, N '#'
\* (1 <= N <= 6), one whitespace character and a non-empty text X, dispatched
\* while no list is open, returns the single fragment <hN> format(X) </hN>.
C9_HeaderRendering ==
  \A i \in Latest :
     (OneLine(i) /\ calls[i].before.list_stack = <<>>)
       => \A n \in 1..6 : \A lead \in 0..Len(LineOf(i)) :
            LET line == LineOf(i)
                x == SubSeq(line, lead + n + 2, Len(line))
            IN (/\ Len(line) >= lead + n + 2
                /\ \A k \in 1..lead : line[k] \in {" ", "\t"}
                /\ \A k \in (lead + 1)..(lead + n) : line[k] = "#"
                /\ line[lead + n + 1] \in {" ", "\t"})
                 => /\ ~calls[i].raised
                    /\ calls[i].ret =
                         << <<"<", "h", Digits[n + 1], ">">> \o FormatInline(x)
                              \o <<"<", "/", "h", Digits[n + 1], ">">> >>
\* the level-2 header "## *T*" was rendered as <h2><em>T</em></h2>
C9_Witness ==
  /\ calls # <<>>
  /\ OneLine(Len(calls))
  /\ Last(calls).before.list_stack = <<>>
  /\ LineOf(Len(calls)) = <<"#", "#", " ", "*", "T", "*">>
  /\ Last(calls).ret =
       << <<"<", "h", "2", ">", "<", "e", "m", ">", "T", "<", "/", "e", "m", ">",
            "<", "/", "h", "2", ">">> >>

\* what each piece of a line is expected to become
Rendered(p) ==
  IF p = Bold(WordX) THEN StrongOpen \o WordX \o StrongClose
  ELSE IF p = Ital(WordY) THEN EmOpen \o WordY \o EmClose
  ELSE p
RECURSIVE RenderedAll(_)
RenderedAll(ps) == IF ps = <<>> THEN <<>> ELSE Rendered(Head(ps)) \o RenderedAll(Tail(ps))
\* the line is made of plain text and closed '**X**' / '*Y*' pairs only
WellFormed(ps) == \A k \in 1..Len(ps) : ps[k] \in PlainPieces \cup PairPieces
\* no '*Y*' pair is directly followed by another marker pair
ItalicThenText(ps) ==
  \A k \in 1..(Len(ps) - 1) : ps[k] = Ital(WordY) => ps[k + 1] \in PlainPieces

\* C10: on a line of plain text and closed pairs, every '**X**' becomes
\* <strong>X</strong> and every '*Y*' becomes <em>Y</em>, bold first, so
\* that no closed '**X**' yields an <em> element.
C10_InlineFormatting ==
  (fmtDone /\ WellFormed(pieces)) => formatted = RenderedAll(pieces)

\* where the formatter does agree with C10: lines on which every '*Y*' pair
\* is followed by a character other than '*' or by the end of the line
SeparatedPairsFormatted ==
  (fmtDone /\ WellFormed(pieces) /\ ItalicThenText(pieces))
    => formatted = RenderedAll(pieces)
\* '**hi** *there*' was formatted as <strong>hi</strong> <em>there</em>
ScenarioEReached ==
  /\ fmtDone
  /\ pieces = <<Bold(WordX), <<" ">>, Ital(WordY)>>
  /\ formatted = <<"<", "s", "t", "r", "o", "n", "g", ">", "h", "i",
                   "<", "/", "s", "t", "r", "o", "n", "g", ">", " ",
                   "<", "e", "m", ">", "t", "h", "e", "r", "e", "<", "/", "e", "m", ">">>

\* C11: every add_chunk call and flush() returns normally with a fragment
\* sequence, also on lines such as '# ' or '1. ' that are a marker and
\* whitespace with no text.
C11_Totality ==
  \A i \in 1..Len(calls) : ~calls[i].raised

\* C12: add_chunk("") returns an empty sequence and leaves buffer,
\* current_line, list_stack and in_list_item unchanged, in every reachable
\* state.
C12_EmptyChunkNoOp ==
  \A i \in 1..Len(calls) :
     (calls[i].op = "add_chunk" /\ calls[i].chunk = <<>>)
       => /\ ~calls[i].raised
          /\ calls[i].ret = <<>>
          /\ After(i) = calls[i].before

\* how many times character c occurs in s
CountOf(s, c) == Cardinality({k \in 1..Len(s) : s[k] = c})
\* the positions in call i's dispatch log of the lines dispatched for reason by
DispatchedBy(i, by) == {k \in 1..Len(calls[i].dispatched) : calls[i].dispatched[k].by = by}

\* C13: a chunk with k line feeds causes exactly k newline-terminated
\* dispatches, and k line feeds after an empty current_line are k blank
\* dispatches, each emitting one <br>.
C13_OneDispatchPerLineFeed ==
  \A i \in 1..Len(calls) :
     calls[i].op = "add_chunk"
       => /\ Cardinality(DispatchedBy(i, "newline")) = CountOf(calls[i].chunk, NL)
          /\ (/\ calls[i].chunk # <<>>
              /\ \A k \in 1..Len(calls[i].chunk) : calls[i].chunk[k] = NL
              /\ calls[i].before.current_line = <<>>)
               => /\ \A k \in 1..Len(calls[i].dispatched) : calls[i].dispatched[k].line = <<>>
                  /\ calls[i].ret = [k \in 1..Len(calls[i].chunk) |-> <<"<", "b", "r", ">">>]

\* the unterminated tail of the text a call has to handle
Pending(i) ==
  LET fed == calls[i].before.current_line \o calls[i].chunk
      cuts == {k \in 1..Len(fed) : fed[k] = NL}
  IN IF cuts = {} THEN fed
     ELSE SubSeq(fed, (CHOOSE k \in cuts : \A j \in cuts : j <= k) + 1, Len(fed))

\* C14: at the end of an add_chunk call a current_line longer than 80
\* characters has been dispatched in that call and cleared, one of 80 or fewer
\* is kept undispatched; so after every add_chunk call len(current_line) <= 80.
C14_ForceDispatchThreshold ==
  \A i \in 1..Len(calls) :
     calls[i].op = "add_chunk"
       => /\ Len(After(i).current_line) <= 80
          /\ calls[i].before.buffer = <<>>
               => IF Len(Pending(i)) > 80
                  THEN /\ \E k \in DispatchedBy(i, "forced") :
                            calls[i].dispatched[k].line = Pending(i)
                       /\ After(i).current_line = <<>>
                  ELSE /\ DispatchedBy(i, "forced") = {}
                       /\ After(i).current_line = Pending(i)

\* line is leading whitespace, n '#', one whitespace character, non-empty text
HeaderLine(line, lead, n) ==
  /\ Len(line) >= lead + n + 2
  /\ \A k \in 1..lead : line[k] \in {" ", "\t"}
  /\ \A k \in (lead + 1)..(lead + n) : line[k] = "#"
  /\ line[lead + n + 1] \in {" ", "\t"}

\* C15: a header line dispatched while the stack holds n >= 1 frames returns
\* one </li></kind> pair per frame, innermost first, then the <hN>...</hN>
\* fragment, and leaves list_stack empty.
C15_HeaderClosesLists ==
  \A i \in 1..Len(calls) :
     (OneLine(i) /\ calls[i].before.list_stack # <<>>)
       => \A n \in 1..6 : \A lead \in 0..Len(LineOf(i)) :
            HeaderLine(LineOf(i), lead, n)
              => LET stack == calls[i].before.list_stack
                     x == SubSeq(LineOf(i), lead + n + 2, Len(LineOf(i)))
                 IN /\ ~calls[i].raised
                    /\ calls[i].ret =
                         ClosingPairs(stack)
                           \o << <<"<", "h", Digits[n + 1], ">">> \o FormatInline(x)
                                   \o <<"<", "/", "h", Digits[n + 1], ">">> >>
                    /\ After(i).list_stack = <<>>

\* line is lead whitespace characters, then text that starts like no marker
PlainLine(line, lead) ==
  /\ Len(line) > lead
  /\ \A k \in 1..lead : line[k] \in {" ", "\t"}
  /\ line[lead + 1] \notin ({" ", "\t", "#", "-"} \cup DigitSet)
\* the frames of a stack that are indented deeper than i, and the others
Deeper(stack, i) == SelectSeq(stack, LAMBDA f : f.indent > i)
NotDeeper(stack, i) == SelectSeq(stack, LAMBDA f : f.indent <= i)

\* C16: a plain line with indent i dispatched while in_list_item is false
\* pops every frame whose indent exceeds i, returns the </li></kind> pair of
\* each popped frame, and after them the formatted text.
C16_PlainOutsideItem ==
  \A i \in 1..Len(calls) :
     (OneLine(i) /\ ~calls[i].before.in_list_item)
       => \A lead \in 0..Len(LineOf(i)) :
            PlainLine(LineOf(i), lead)
              => LET stack == calls[i].before.list_stack
                     x == SubSeq(LineOf(i), lead + 1, Len(LineOf(i)))
                 IN /\ ~calls[i].raised
                    /\ After(i).list_stack = NotDeeper(stack, lead)
                    /\ calls[i].ret =
                         ClosingPairs(Deeper(stack, lead)) \o <<FormatInline(x)>>

\* C17: a plain line dispatched while in_list_item is true returns exactly
\* one fragment, a space followed by the formatted stripped text, and leaves
\* list_stack unchanged whatever the line's indent.
C17_PlainContinuation ==
  \A i \in Latest :
     (OneLine(i) /\ calls[i].before.in_list_item)
       => \A lead \in 0..Len(LineOf(i)) :
            PlainLine(LineOf(i), lead)
              => LET x == SubSeq(LineOf(i), lead + 1, Len(LineOf(i)))
                 IN /\ ~calls[i].raised
                    /\ calls[i].ret = << <<" ">> \o FormatInline(x) >>
                    /\ After(i).list_stack = calls[i].before.list_stack
\* a continuation line at indent 0 under an open item of a list at indent 2
C17_Witness ==
  /\ calls # <<>>
  /\ OneLine(Len(calls))
  /\ Last(calls).before.in_list_item
  /\ PlainLine(LineOf(Len(calls)), 0)
  /\ Last(calls).before.list_stack # <<>>
  /\ Last(Last(calls).before.list_stack).indent = 2
  /\ Last(calls).ret = << <<" ", "t">> >>
  /\ list_stack = Last(calls).before.list_stack

\* the line is empty or made of whitespace only
BlankLine(line) == \A k \in 1..Len(line) : line[k] \in {" ", "\t"}

\* C18: a line that is empty or whitespace-only returns exactly ['<br>'],
\* sets in_list_item to false and leaves list_stack unchanged, whatever the
\* stack holds.
C18_BlankLine ==
  \A i \in Latest :
     (OneLine(i) /\ BlankLine(LineOf(i)))
       => /\ ~calls[i].raised
          /\ calls[i].ret = << <<"<", "b", "r", ">">> >>
          /\ ~After(i).in_list_item
          /\ After(i).list_stack = calls[i].before.list_stack
\* a whitespace-only line dispatched under an open item of a nested list
C18_Witness ==
  /\ calls # <<>>
  /\ OneLine(Len(calls))
  /\ LineOf(Len(calls)) = <<" ">>
  /\ Last(calls).before.in_list_item
  /\ Len(Last(calls).before.list_stack) = 2
  /\ Last(calls).ret = << <<"<", "b", "r", ">">> >>
  /\ ~in_list_item
  /\ Len(list_stack) = 2

\* line is lead whitespace characters, then the unordered marker "- "
UlItemLine(line, lead) ==
  /\ Len(line) >= lead + 2
  /\ \A k \in 1..lead : line[k] \in {" ", "\t"}
  /\ line[lead + 1] = "-"
  /\ line[lead + 2] = " "
\* line is lead whitespace characters, d digits, '.', one whitespace character
\* and a non-empty text, which is what _handle_list_item gets to see
OlItemLine(line, lead, d) ==
  /\ d >= 1
  /\ Len(line) >= lead + d + 3
  /\ \A k \in 1..lead : line[k] \in {" ", "\t"}
  /\ \A k \in (lead + 1)..(lead + d) : line[k] \in DigitSet
  /\ line[lead + d + 1] = "."
  /\ line[lead + d + 2] \in {" ", "\t"}
\* both lines are list items of the same kind at the same indent
SameKindAndIndent(l1, l2) ==
  \E lead \in 0..Len(l1) :
     \/ UlItemLine(l1, lead) /\ UlItemLine(l2, lead)
     \/ /\ \E d \in 1..Len(l1) : OlItemLine(l1, lead, d)
        /\ \E d \in 1..Len(l2) : OlItemLine(l2, lead, d)
\* call k fed one or more blank lines and nothing else
BlankCall(k) ==
  /\ calls[k].op = "add_chunk"
  /\ calls[k].before.buffer = <<>>
  /\ calls[k].before.current_line = <<>>
  /\ calls[k].chunk # <<>>
  /\ Last(calls[k].chunk) = NL
  /\ \A c \in 1..Len(calls[k].chunk) : calls[k].chunk[c] \in {" ", "\t", NL}
\* an item line at call j, only blank lines after it, and at call i an item
\* line of the same kind at the same indent
ResumedItem(j, i) ==
  /\ j + 1 < i
  /\ OneLine(j)
  /\ OneLine(i)
  /\ \A k \in (j + 1)..(i - 1) : BlankCall(k)
  /\ SameKindAndIndent(LineOf(j), LineOf(i))

\* C19: a list item of kind K at indent i, then one or more blank lines, then
\* another item of kind K at indent i: the second item reuses the top frame;
\* no <ul>/<ol> opening tag and no closing tag is emitted after the first
\* item, and the stack keeps its depth and its frames' kinds and indents.
C19_ListResumesAfterBlank ==
  \A i \in Latest : \A j \in 1..(i - 2) :
     ResumedItem(j, i)
       => /\ \A k \in (j + 1)..i : \A f \in 1..Len(calls[k].ret) :
               /\ ~IsListOpen(calls[k].ret[f])
               /\ ~IsListClose(calls[k].ret[f])
               /\ calls[k].ret[f] # <<"<", "/", "l", "i", ">">>
          /\ Len(After(i).list_stack) = Len(After(j).list_stack)
          /\ \A f \in 1..Len(After(j).list_stack) :
               /\ After(i).list_stack[f].kind = After(j).list_stack[f].kind
               /\ After(i).list_stack[f].indent = After(j).list_stack[f].indent
\* an ordered item, two blank lines, then "3. b" resumed the <ol> with <li value='3'>
C19_Witness ==
  /\ Len(calls) = 3
  /\ ResumedItem(1, 3)
  /\ calls[2].chunk = <<NL, NL>>
  /\ calls[2].ret = << <<"<", "b", "r", ">">>, <<"<", "b", "r", ">">> >>
  /\ calls[3].ret = << LiValue(3), <<"b">> >>
  /\ Len(list_stack) = 1
  /\ list_stack[1].kind = "ol"

\* line is a list item line with lead whitespace characters in front
ItemLine(line, lead) ==
  /\ Len(line) > lead
  /\ \A k \in 1..lead : line[k] \in {" ", "\t"}
  /\ \/ UlItemLine(line, lead)
     \/ /\ line[lead + 1] \in DigitSet
        /\ \E d \in 1..(Len(line) - lead) : OlItemLine(line, lead, d)

\* C20: a list item with indent i first pops every frame whose indent is
\* greater than i, top frame first, returning for each exactly </li> and the
\* closing tag of that frame's kind; frames with indent <= i stay, so that the
\* item is then handled on a stack that is empty or whose top has indent <= i.
C20_ItemDedent ==
  \A i \in Latest :
     OneLine(i)
       => \A lead \in 0..Len(LineOf(i)) :
            ItemLine(LineOf(i), lead)
              => LET stack == calls[i].before.list_stack
                     popped == Deeper(stack, lead)
                     kept == NotDeeper(stack, lead)
                     ret == calls[i].ret
                     after == After(i).list_stack
                 IN /\ ~calls[i].raised
                    /\ stack = kept \o popped
                    /\ Len(ret) >= 2 * Len(popped)
                    /\ SubSeq(ret, 1, 2 * Len(popped)) = ClosingPairs(popped)
                    /\ \A f \in (2 * Len(popped) + 1)..Len(ret) :
                         ~IsListClose(ret[f]) /\ ret[f] # <<"<", "/", "l", "i", ">">>
                    /\ Len(after) \in {Len(kept), Len(kept) + 1}
                    /\ \A f \in 1..Len(kept) :
                         /\ after[f].kind = kept[f].kind
                         /\ after[f].indent = kept[f].indent
                    /\ Last(after).indent = lead
\* an item at indent 0 popped the <ul> at indent 2 and kept the <ol> at indent 0
C20_Witness ==
  /\ calls # <<>>
  /\ OneLine(Len(calls))
  /\ ItemLine(LineOf(Len(calls)), 0)
  /\ Len(Last(calls).before.list_stack) = 2
  /\ Last(calls).before.list_stack[1].kind = "ol"
  /\ Last(calls).before.list_stack[1].indent = 0
  /\ Last(calls).before.list_stack[2].indent = 2
  /\ Len(Last(calls).ret) >= 2
  /\ SubSeq(Last(calls).ret, 1, 2) = <<TagLiClose, CloseTag("ul")>>
  /\ list_stack # <<>>
  /\ list_stack[1] = Last(calls).before.list_stack[1]

\* the kind, the number and the content of the item line with lead whitespace
\* characters in front
ItemKindOf(line, lead) == IF UlItemLine(line, lead) THEN "ul" ELSE "ol"
ItemDigitsOf(line, lead) ==
  CHOOSE d \in 1..(Len(line) - lead) : OlItemLine(line, lead, d)
ItemNumberOf(line, lead) ==
  IF UlItemLine(line, lead) THEN None
  ELSE ParseInt(SubSeq(line, lead + 1, lead + ItemDigitsOf(line, lead)))
ItemContentOf(line, lead) ==
  IF UlItemLine(line, lead) THEN SubSeq(line, lead + 3, Len(line))
  ELSE SubSeq(line, lead + ItemDigitsOf(line, lead) + 3, Len(line))
\* the opening tag of a list of the given kind whose first item has number n
OpeningTag(kind, n) ==
  IF kind = "ul" THEN <<"<", "u", "l", ">">>
  ELSE <<"<", "o", "l", " ", "s", "t", "a", "r", "t", "=", "'">> \o FormatInt(n) \o <<"'", ">">>
\* the fragments a call returned after the closing pairs of the popped frames
AfterPairs(ret, popped) == SubSeq(ret, 2 * Len(popped) + 1, Len(ret))

\* C21: after the dedent step of a list item, a frame {kind, indent,
\* lastNumber} is pushed and its opening tag (<ol start='N'> or <ul>) emitted
\* exactly when the stack is empty, or top.indent < indent, or top.kind is not
\* the item's kind; a change of kind at equal indent pushes on top of the
\* existing frame without closing it, the same kind at the same indent pushes
\* nothing.
C21_ItemOpensList ==
  \A i \in Latest :
     OneLine(i)
       => \A lead \in 0..Len(LineOf(i)) :
            ItemLine(LineOf(i), lead)
              => LET kept == NotDeeper(calls[i].before.list_stack, lead)
                     rest == AfterPairs(calls[i].ret, Deeper(calls[i].before.list_stack, lead))
                     kind == ItemKindOf(LineOf(i), lead)
                     n == ItemNumberOf(LineOf(i), lead)
                     after == After(i).list_stack
                 IN IF \/ kept = <<>>
                       \/ Last(kept).indent < lead
                       \/ Last(kept).kind # kind
                    THEN /\ after = Append(kept, [kind |-> kind, indent |-> lead, lastNumber |-> n])
                         /\ rest # <<>>
                         /\ rest[1] = OpeningTag(kind, n)
                         /\ \A f \in 2..Len(rest) : ~IsListOpen(rest[f])
                    ELSE /\ Len(after) = Len(kept)
                         /\ Front(after) = Front(kept)
                         /\ \A f \in 1..Len(rest) : ~IsListOpen(rest[f])
\* an ordered item at indent 0 pushed an <ol> frame on top of the <ul> frame
\* at indent 0, which stayed open
C21_Witness ==
  /\ calls # <<>>
  /\ OneLine(Len(calls))
  /\ \E d \in 1..2 : OlItemLine(LineOf(Len(calls)), 0, d)
  /\ Len(Last(calls).before.list_stack) = 1
  /\ Last(calls).before.list_stack[1].kind = "ul"
  /\ Last(calls).before.list_stack[1].indent = 0
  /\ Len(list_stack) = 2
  /\ list_stack[1] = Last(calls).before.list_stack[1]
  /\ list_stack[2].kind = "ol"
  /\ list_stack[2].indent = 0
  /\ StartsWith(Last(calls).ret[1], <<"<", "o", "l", " ">>)

\* C22: an ordered item with number N gets <li value='N'> if N is not
\* top.lastNumber + 1, top.lastNumber being read after the push of step 2 (so
\* the first item of a new list always gets it), and plain <li> otherwise;
\* afterwards top.lastNumber = N. An unordered item always gets plain <li>, and
\* no lastNumber changes.
C22_ItemTag ==
  \A i \in Latest :
     OneLine(i)
       => \A lead \in 0..Len(LineOf(i)) :
            ItemLine(LineOf(i), lead)
              => LET kept == NotDeeper(calls[i].before.list_stack, lead)
                     rest == AfterPairs(calls[i].ret, Deeper(calls[i].before.list_stack, lead))
                     n == ItemNumberOf(LineOf(i), lead)
                     after == After(i).list_stack
                     pushed == Len(after) = Len(kept) + 1
                     tag == rest[IF pushed THEN 2 ELSE 1]
                     valued == <<"<", "l", "i", " ", "v", "a", "l", "u", "e", "=", "'">>
                                 \o FormatInt(n) \o <<"'", ">">>
                 IN /\ Len(rest) >= (IF pushed THEN 2 ELSE 1)
                    /\ \A f \in 1..(Len(after) - 1) :
                         f <= Len(kept) => after[f].lastNumber = kept[f].lastNumber
                    /\ IF ItemKindOf(LineOf(i), lead) = "ol"
                       THEN /\ Last(after).lastNumber = n
                            /\ tag = IF pushed \/ n # Last(kept).lastNumber + 1
                                     THEN valued ELSE <<"<", "l", "i", ">">>
                       ELSE /\ tag = <<"<", "l", "i", ">">>
                            /\ Last(after).lastNumber =
                                 IF pushed THEN None ELSE Last(kept).lastNumber
\* item 4 after item 3 of the same <ol> got a plain <li>
C22_Witness ==
  /\ calls # <<>>
  /\ OneLine(Len(calls))
  /\ OlItemLine(LineOf(Len(calls)), 0, 1)
  /\ ItemNumberOf(LineOf(Len(calls)), 0) = 4
  /\ Last(calls).before.list_stack # <<>>
  /\ Last(Last(calls).before.list_stack).kind = "ol"
  /\ Last(Last(calls).before.list_stack).lastNumber = 3
  /\ Last(calls).ret = << <<"<", "l", "i", ">">>, <<"t">> >>
  /\ Last(list_stack).lastNumber = 4

\* C23: every handled list item returns, in this order, the closing pairs of
\* the popped frames, the opening list tag if a frame was pushed, the <li>
\* tag, and last its inline-formatted content; it leaves in_list_item true and
\* a non-empty stack whose top has the item's kind and indent.
C23_ItemContentLast ==
  \A i \in Latest :
     OneLine(i)
       => \A lead \in 0..Len(LineOf(i)) :
            ItemLine(LineOf(i), lead)
              => LET popped == Deeper(calls[i].before.list_stack, lead)
                     kept == NotDeeper(calls[i].before.list_stack, lead)
                     kind == ItemKindOf(LineOf(i), lead)
                     ret == calls[i].ret
                     after == After(i).list_stack
                     opened == IF Len(after) = Len(kept) + 1 THEN 1 ELSE 0
                 IN /\ Len(ret) = 2 * Len(popped) + opened + 2
                    /\ SubSeq(ret, 1, 2 * Len(popped)) = ClosingPairs(popped)
                    /\ opened = 1 => IsListOpen(ret[2 * Len(popped) + 1])
                    /\ IsLiOpen(ret[Len(ret) - 1])
                    /\ Last(ret) = FormatInline(ItemContentOf(LineOf(i), lead))
                    /\ After(i).in_list_item
                    /\ after # <<>>
                    /\ Last(after).kind = kind
                    /\ Last(after).indent = lead
\* an item that closed a deeper list and opened its own
C23_Witness ==
  /\ calls # <<>>
  /\ OneLine(Len(calls))
  /\ ItemLine(LineOf(Len(calls)), 0)
  /\ ~Last(calls).before.in_list_item
  /\ Len(Last(calls).ret) = 5
  /\ IsListClose(Last(calls).ret[2])
  /\ IsListOpen(Last(calls).ret[3])
  /\ IsLiOpen(Last(calls).ret[4])
  /\ Last(calls).ret[5] = FormatInline(ItemContentOf(LineOf(Len(calls)), 0))
  /\ in_list_item

\* C24: in every reachable state the frames' indents are strictly increasing
\* from bottom to top, and no two frames of the stack have the same kind and
\* indent.
C24_StackStrictlyIncreasing ==
  /\ \A j \in 1..(Len(list_stack) - 1) : list_stack[j].indent < list_stack[j + 1].indent
  /\ \A j \in 1..Len(list_stack) : \A k \in 1..Len(list_stack) :
       (list_stack[j].kind = list_stack[k].kind /\ list_stack[j].indent = list_stack[k].indent)
         => j = k

\* C24 as amended: in every reachable state the frames' indents never
\* decrease from bottom to top, and two adjacent frames of the same indent
\* differ in kind.
C24_StackNonDecreasing ==
  \A j \in 1..(Len(list_stack) - 1) :
     /\ list_stack[j].indent <= list_stack[j + 1].indent
     /\ list_stack[j].indent = list_stack[j + 1].indent
          => list_stack[j].kind # list_stack[j + 1].kind
\* three frames: two of equal indent and different kind under a deeper one
C24_Witness ==
  /\ Len(list_stack) = 3
  /\ list_stack[1].indent = list_stack[2].indent
  /\ list_stack[1].kind # list_stack[2].kind
  /\ list_stack[2].indent < list_stack[3].indent

\* the positions of the pieces that are a lone '*'
Stars(ps) == {k \in 1..Len(ps) : ps[k] = <<"*">>}
\* the line holds plain text and one marker without a closing marker: a
\* single '*' (as in 'a*b') or a single '**' (as in '**abc')
OneOpenMarker(ps) ==
  /\ \A k \in 1..Len(ps) : ps[k] \in PlainPieces \cup {<<"*">>}
  /\ \/ Cardinality(Stars(ps)) = 1
     \/ \E k \in 1..(Len(ps) - 1) : Stars(ps) = {k, k + 1}

\* C25: on a line in which a '**' or '*' marker has no closing marker, the
\* formatter returns the text unchanged, marker characters included, and so
\* introduces no <strong> or <em> element.
C25_UnterminatedMarkersLiteral ==
  (fmtDone /\ OneOpenMarker(pieces)) => formatted = Join(pieces)

\* the line starts with exactly lead whitespace characters
LeadOf(line, lead) ==
  /\ Len(line) >= lead
  /\ \A k \in 1..lead : line[k] \in {" ", "\t"}
  /\ Len(line) > lead => line[lead + 1] \notin {" ", "\t"}
\* s starts with 1 to 6 '#' and a whitespace character
HeaderMarker(s) ==
  \E n \in 1..6 : Len(s) > n /\ (\A k \in 1..n : s[k] = "#") /\ s[n + 1] \in {" ", "\t"}
\* s starts with one or more digits, '.', and a whitespace character
OrderedMarker(s) ==
  /\ s # <<>>
  /\ s[1] \in DigitSet
  /\ \E d \in 1..Len(s) :
       /\ Len(s) >= d + 2
       /\ \A k \in 1..d : s[k] \in DigitSet
       /\ s[d + 1] = "."
       /\ s[d + 2] \in {" ", "\t"}
UnorderedMarker(s) == Len(s) >= 2 /\ s[1] = "-" /\ s[2] = " "
\* which handler a stripped line belongs to, in the fixed priority order
HandlerOf(s) ==
  IF HeaderMarker(s) THEN "header"
  ELSE IF OrderedMarker(s) THEN "ordered"
  ELSE IF UnorderedMarker(s) THEN "unordered"
  ELSE IF s = <<>> THEN "blank"
  ELSE "plain"
\* what call i shows when the given handler ran on its line (s is the line
\* with its lead whitespace characters taken off); the header and the
\* ordered handler may have raised on a marker without text
RanHeader(i) ==
  \/ calls[i].raised /\ calls[i].ret = <<>> /\ After(i).list_stack = <<>>
  \/ /\ ~calls[i].raised
     /\ Len(calls[i].ret) = 1
     /\ StartsWith(calls[i].ret[1], <<"<", "h">>)
     /\ After(i).list_stack = <<>>
RanItem(i, kind, lead) ==
  \/ /\ kind = "ol"
     /\ calls[i].raised
     /\ calls[i].ret = <<>>
     /\ After(i).list_stack = calls[i].before.list_stack
  \/ /\ ~calls[i].raised
     /\ Len(calls[i].ret) >= 2
     /\ IsLiOpen(calls[i].ret[Len(calls[i].ret) - 1])
     /\ After(i).in_list_item
     /\ After(i).list_stack # <<>>
     /\ Last(After(i).list_stack).kind = kind
     /\ Last(After(i).list_stack).indent = lead
RanBlank(i) ==
  /\ ~calls[i].raised
  /\ calls[i].ret = << <<"<", "b", "r", ">">> >>
  /\ After(i).list_stack = calls[i].before.list_stack
RanPlain(i, s, lead) ==
  /\ ~calls[i].raised
  /\ ~After(i).in_list_item
  /\ IF calls[i].before.in_list_item
     THEN /\ calls[i].ret = << <<" ">> \o FormatInline(s) >>
          /\ After(i).list_stack = calls[i].before.list_stack
     ELSE /\ calls[i].ret = <<FormatInline(s)>>
          /\ After(i).list_stack = NotDeeper(calls[i].before.list_stack, lead)

\* C26: every dispatched line is routed to exactly one handler, the first of
\* header, ordered, unordered, blank, plain whose pattern the line matches
\* once its leading whitespace is stripped; the number of stripped characters
\* is the indent the ordered, unordered and plain handlers work with.
C26_Classification ==
  \A i \in Latest :
     OneLine(i)
       => \A lead \in 0..Len(LineOf(i)) :
            LeadOf(LineOf(i), lead)
              => LET s == SubSeq(LineOf(i), lead + 1, Len(LineOf(i)))
                     h == HandlerOf(s)
                 IN CASE h = "header" -> RanHeader(i)
                      [] h = "ordered" -> RanItem(i, "ol", lead)
                      [] h = "unordered" -> RanItem(i, "ul", lead) /\ ~calls[i].raised
                      [] h = "blank" -> RanBlank(i)
                      [] OTHER -> RanPlain(i, s, lead)
\* the line '- # T' went to the unordered handler, '# T' being its content
C26_Witness ==
  /\ calls # <<>>
  /\ OneLine(Len(calls))
  /\ LineOf(Len(calls)) = <<"-", " ", "#", " ", "T">>
  /\ RanItem(Len(calls), "ul", 0)
  /\ Last(Last(calls).ret) = <<"#", " ", "T">>

\* call i force-dispatched the overlong start of a line, and call i + 1
\* brought the rest of that line and its line feed
ForcedThenCompleted(i) ==
  /\ i < Len(calls)
  /\ calls[i].op = "add_chunk"
  /\ calls[i].before.buffer = <<>>
  /\ \A k \in 1..Len(calls[i].chunk) : calls[i].chunk[k] # NL
  /\ Len(calls[i].before.current_line \o calls[i].chunk) > 80
  /\ Len(calls[i].dispatched) = 1
  /\ calls[i].dispatched[1].by = "forced"
  /\ calls[i + 1].op = "add_chunk"
  /\ calls[i + 1].chunk # <<>>
  /\ Last(calls[i + 1].chunk) = NL
  /\ \A k \in 1..(Len(calls[i + 1].chunk) - 1) : calls[i + 1].chunk[k] # NL
\* the dispatched start of the line of call i, and the complete line
ForcedPrefix(i) == calls[i].before.current_line \o calls[i].chunk
CompleteLine(i) == ForcedPrefix(i) \o Front(calls[i + 1].chunk)
\* call i shows the handler, and the indent, that the complete line would get
ClassifiedAsComplete(i) ==
  \A lead \in 0..Len(CompleteLine(i)) :
     LeadOf(CompleteLine(i), lead)
       => LET h == HandlerOf(SubSeq(CompleteLine(i), lead + 1, Len(CompleteLine(i))))
          IN CASE h = "header" -> RanHeader(i)
               [] h = "ordered" -> RanItem(i, "ol", lead)
               [] h = "unordered" -> RanItem(i, "ul", lead)
               [] h = "blank" -> RanBlank(i)
               [] OTHER -> RanPlain(i, SubSeq(ForcedPrefix(i), lead + 1, Len(ForcedPrefix(i))), lead)
\* s is the start of a block marker and nothing more: 1 to 6 '#', or digits
\* with or without the '.', or '-'
PartialMarker(s) ==
  \/ Len(s) <= 6 /\ \A k \in 1..Len(s) : s[k] = "#"
  \/ \A k \in 1..Len(s) : s[k] \in DigitSet
  \/ /\ Len(s) >= 2
     /\ Last(s) = "."
     /\ \A k \in 1..(Len(s) - 1) : s[k] \in DigitSet
  \/ s = <<"-">>
\* the dispatched start holds more than whitespace and a partial marker
DecidedPrefix(p) ==
  \E lead \in 0..(Len(p) - 1) :
     /\ LeadOf(p, lead)
     /\ ~PartialMarker(SubSeq(p, lead + 1, Len(p)))

Drained(i) == calls[i].before.list_stack # <<>> /\ After(i).list_stack = <<>>
\* the number of leading whitespace characters of a line, and the line without them
IndentOf(line) == CHOOSE lead \in 0..Len(line) : LeadOf(line, lead)
Stripped(line) == SubSeq(line, IndentOf(line) + 1, Len(line))

\* C28: no add_chunk call takes list_stack from non-empty to empty; that
\* transition happens only inside flush().
C28_OnlyFlushDrains ==
  \A i \in 1..Len(calls) : calls[i].op = "add_chunk" => ~Drained(i)

\* C28 as amended: an add_chunk call takes list_stack from non-empty to empty
\* only by dispatching a header line or a plain line; a call that dispatches
\* one line does so only if the line is a header, or is a plain line handled
\* while in_list_item is false whose indent is below that of every frame. List
\* items and blank lines never empty the stack, and a flush() that returns
\* leaves it empty.
C28_DrainedByHeaderOrPlain ==
  \A i \in Latest :
     /\ (calls[i].op = "add_chunk" /\ Drained(i))
          => /\ \E k \in 1..Len(calls[i].dispatched) :
                  HandlerOf(Stripped(calls[i].dispatched[k].line)) \in {"header", "plain"}
             /\ OneLine(i)
                  => \/ HeaderMarker(Stripped(LineOf(i)))
                     \/ /\ HandlerOf(Stripped(LineOf(i))) = "plain"
                        /\ ~calls[i].before.in_list_item
                        /\ \A f \in 1..Len(calls[i].before.list_stack) :
                             calls[i].before.list_stack[f].indent > IndentOf(LineOf(i))
     /\ (calls[i].op = "flush" /\ ~calls[i].raised) => After(i).list_stack = <<>>
\* an add_chunk call emptied a stack of two frames by dispatching a header line
C28_Witness ==
  /\ calls # <<>>
  /\ Last(calls).op = "add_chunk"
  /\ OneLine(Len(calls))
  /\ HeaderMarker(LineOf(Len(calls)))
  /\ Len(Last(calls).before.list_stack) = 2
  /\ list_stack = <<>>
  /\ ~Last(calls).raised

\* no line of the text, the unterminated last one included, is longer than 80
ShortLines(t) ==
  \A k \in 1..(Len(t) - 80) : \E j \in k..(k + 80) : t[j] = NL
\* the lines dispatched by all the calls so far, in order
RECURSIVE DispatchedLines(_)
DispatchedLines(cs) ==
  IF cs = <<>> THEN <<>>
  ELSE DispatchedLines(Front(cs))
         \o [k \in 1..Len(Last(cs).dispatched) |-> Last(cs).dispatched[k].line]
\* the lines of a text: its segments between line feeds, and the last
\* segment if it is not empty
LinesOf(t) ==
  LET cuts == {k \in 1..Len(t) : t[k] = NL}
      n == Cardinality(cuts)
      cut(j) == IF j = 0 THEN 0
                ELSE CHOOSE k \in cuts : Cardinality({c \in cuts : c <= k}) = j
      tail == SubSeq(t, cut(n) + 1, Len(t))
      full == [j \in 1..n |-> SubSeq(t, cut(j - 1) + 1, cut(j) - 1)]
  IN IF tail = <<>> THEN full ELSE Append(full, tail)
\* the text fed as one chunk to a fresh renderer, then flush()
WholeAdded(t) == AddChunkTo(Renderer(<<>>, <<>>, <<>>, FALSE), t)
WholeFlushed(t) == FlushOf(WholeAdded(t))
WholeReturned(t) ==
  (IF WholeAdded(t).raised THEN <<>> ELSE WholeAdded(t).result)
    \o (IF WholeFlushed(t).raised THEN <<>> ELSE WholeFlushed(t).result)

\* C29: for a text whose lines all have at most 80 characters, every
\* partition into chunks gives, over all add_chunk calls and flush(), the same
\* concatenated output and the same final state as the text fed as one chunk,
\* and each line is dispatched exactly once, as the fully joined line.
C29_ShortLineInvariance ==
  (FlushedOnce /\ ShortLines(Text))
    => /\ Join(Out) = Join(WholeReturned(Text))
       /\ buffer = WholeFlushed(Text).buffer
       /\ current_line = WholeFlushed(Text).current_line
       /\ list_stack = WholeFlushed(Text).list_stack
       /\ in_list_item = WholeFlushed(Text).in_list_item
       /\ DispatchedLines(calls) = LinesOf(Text)

\* the kinds of the lists that a fragment sequence has opened and not closed,
\* outermost first; <<"mismatch">> once a closing tag did not match the most
\* recent unclosed opening tag
RECURSIVE Unclosed(_)
Unclosed(frags) ==
  IF frags = <<>> THEN <<>>
  ELSE LET u == Unclosed(Front(frags))
           f == Last(frags)
       IN IF u = <<"mismatch">> THEN u
          ELSE IF f = <<"<", "u", "l", ">">> THEN Append(u, "ul")
          ELSE IF StartsWith(f, <<"<", "o", "l", " ">>) THEN Append(u, "ol")
          ELSE IF f = <<"<", "/", "u", "l", ">">>
               THEN IF u # <<>> /\ Last(u) = "ul" THEN Front(u) ELSE <<"mismatch">>
          ELSE IF f = <<"<", "/", "o", "l", ">">>
               THEN IF u # <<>> /\ Last(u) = "ol" THEN Front(u) ELSE <<"mismatch">>
          ELSE u
\* a line that the classifier takes for a list item or for a blank line
ItemOrBlank(line) ==
  \/ BlankLine(line)
  \/ UnorderedMarker(Stripped(line))
  \/ OrderedMarker(Stripped(line))

\* C30: when every dispatched line is a list item (ordered or unordered, any
\* indent) or a blank line, then after flush() the list tags emitted are
\* balanced and properly nested: each </ul> or </ol> matches the kind of the
\* most recent opening list tag still unclosed, and none stays unclosed.
C30_ListOnlyNesting ==
  (/\ FlushedOnce
   /\ \A k \in 1..Len(DispatchedLines(calls)) : ItemOrBlank(DispatchedLines(calls)[k]))
    => Unclosed(Out) = <<>>

\* C31: in every reachable state the indents of the frames are non-decreasing
\* from bottom to top: each frame's indent is at least that of the frame
\* below it.
C31_IndentsNonDecreasing ==
  \A j \in 2..Len(list_stack) : list_stack[j].indent >= list_stack[j - 1].indent
\* an item at indent 0 popped the frame at indent 2 and pushed its own frame
\* on the frame at indent 0 that was below
C31_Witness ==
  /\ calls # <<>>
  /\ Len(Last(calls).before.list_stack) = 2
  /\ Last(calls).before.list_stack[1].indent = 0
  /\ Last(calls).before.list_stack[2].indent = 2
  /\ Len(list_stack) = 2
  /\ list_stack[1] = Last(calls).before.list_stack[1]
  /\ list_stack[2].indent = 0
  /\ list_stack[2].kind # list_stack[1].kind

\* C32: in every state reached by add_chunk calls, in_list_item true implies
\* a non-empty list_stack.
C32_InListItemImpliesOpenList ==
  NumCalls("flush") = 0 => (in_list_item => list_stack # <<>>)

\* C33: a plain line emitted as a continuation leaves in_list_item false; so
\* when two plain lines follow each other and the first one found
\* in_list_item true, the first is returned with a leading space and the
\* second is returned without it, on the path that pops the frames indented
\* deeper than the line.
C33_ContinuationConsumesFlag ==
  \A i \in Latest :
     /\ (OneLine(i) /\ calls[i].before.in_list_item)
          => \A lead \in 0..Len(LineOf(i)) :
               PlainLine(LineOf(i), lead) => ~After(i).in_list_item
     /\ (/\ i > 1
         /\ OneLine(i - 1)
         /\ calls[i - 1].before.in_list_item
         /\ OneLine(i))
          => \A l1 \in 0..Len(LineOf(i - 1)), l2 \in 0..Len(LineOf(i)) :
               (PlainLine(LineOf(i - 1), l1) /\ PlainLine(LineOf(i), l2))
                 => LET x1 == SubSeq(LineOf(i - 1), l1 + 1, Len(LineOf(i - 1)))
                        x2 == SubSeq(LineOf(i), l2 + 1, Len(LineOf(i)))
                    IN /\ calls[i - 1].ret = << <<" ">> \o FormatInline(x1) >>
                       /\ ~calls[i].before.in_list_item
                       /\ ~calls[i].raised
                       /\ calls[i].ret # <<>>
                       /\ Last(calls[i].ret) = FormatInline(x2)
                       /\ After(i).list_stack
                            = NotDeeper(calls[i].before.list_stack, l2)
\* two plain lines after an item at indent 2: the second one pops the frame
C33_Witness ==
  /\ Len(calls) >= 3
  /\ LET i == Len(calls)
     IN /\ OneLine(i - 1)
        /\ OneLine(i)
        /\ calls[i - 1].before.in_list_item
        /\ PlainLine(LineOf(i - 1), 0)
        /\ PlainLine(LineOf(i), 0)
        /\ calls[i].before.list_stack # <<>>
        /\ list_stack = <<>>

\* C34: in every reachable state each 'ol' frame carries an integer
\* lastNumber and each 'ul' frame carries none; and an ordered item reads
\* lastNumber of a top frame that exists and is an 'ol' frame: either the
\* frame the item has just pushed, or a kept 'ol' frame with an integer.
C34_FrameTyping ==
  /\ \A j \in 1..Len(list_stack) :
       /\ list_stack[j].kind \in {"ol", "ul"}
       /\ list_stack[j].kind = "ol" => list_stack[j].lastNumber \in Nat
       /\ list_stack[j].kind = "ul" => list_stack[j].lastNumber = None
  /\ \A i \in Latest :
       OneLine(i)
         => \A lead \in 0..Len(LineOf(i)) :
              (ItemLine(LineOf(i), lead) /\ ItemKindOf(LineOf(i), lead) = "ol")
                => LET kept == NotDeeper(calls[i].before.list_stack, lead)
                       after == After(i).list_stack
                   IN /\ ~calls[i].raised
                      /\ after # <<>>
                      /\ Last(after).kind = "ol"
                      /\ Last(after).lastNumber = ItemNumberOf(LineOf(i), lead)
                      /\ \/ after = Append(kept, Last(after))
                         \/ /\ kept # <<>>
                            /\ Last(kept).kind = "ol"
                            /\ Last(kept).lastNumber \in Nat
                            /\ Len(after) = Len(kept)
\* an ordered item numbered an <ol> frame that lies on top of a <ul> frame
C34_Witness ==
  /\ calls # <<>>
  /\ OneLine(Len(calls))
  /\ OlItemLine(LineOf(Len(calls)), 0, 1)
  /\ Len(Last(calls).before.list_stack) = 2
  /\ Last(calls).before.list_stack[1].kind = "ul"
  /\ Last(calls).before.list_stack[2].kind = "ol"
  /\ Len(list_stack) = 2
  /\ list_stack[2].lastNumber = Last(calls).before.list_stack[2].lastNumber + 1
  /\ list_stack[1].lastNumber = None

\* call k fed one list item line whose indent is greater than lead
DeeperItemCall(k, lead) ==
  /\ OneLine(k)
  /\ \E l \in (lead + 1)..Len(LineOf(k)) : ItemLine(LineOf(k), l)
\* C35: an ordered item N at indent i, then any number of items at indents
\* greater than i, then an ordered item N + 1 at indent i: the last item
\* closes the nested frames, reuses the 'ol' frame of item N, opens no list
\* and gets a plain <li>.
C35_NumberingResumes ==
  \A i \in Latest : \A j \in 1..(i - 1) :
     (OneLine(i) /\ OneLine(j))
       => \A lead \in 0..Len(LineOf(j)) :
            (/\ \A k \in (j + 1)..(i - 1) : DeeperItemCall(k, lead)
             /\ ItemLine(LineOf(j), lead)
             /\ ItemKindOf(LineOf(j), lead) = "ol"
             /\ ItemLine(LineOf(i), lead)
             /\ ItemKindOf(LineOf(i), lead) = "ol"
             /\ ItemNumberOf(LineOf(i), lead) = ItemNumberOf(LineOf(j), lead) + 1)
              => LET nested == Deeper(calls[i].before.list_stack, lead)
                     frames == After(j).list_stack
                     n == ItemNumberOf(LineOf(j), lead)
                 IN /\ calls[i].before.list_stack = frames \o nested
                    /\ calls[i].ret = ClosingPairs(nested)
                         \o << <<"<", "l", "i", ">">>,
                               FormatInline(ItemContentOf(LineOf(i), lead)) >>
                    /\ Last(frames) = [kind |-> "ol", indent |-> lead, lastNumber |-> n]
                    /\ After(i).list_stack
                         = Append(Front(frames),
                                  [kind |-> "ol", indent |-> lead, lastNumber |-> n + 1])
\* item 3, a nested unordered item, then item 4: the nested list is closed and
\* item 4 continues the list of item 3
C35_Witness ==
  /\ Len(calls) = 3
  /\ OneLine(1)
  /\ OlItemLine(LineOf(1), 0, 1)
  /\ DeeperItemCall(2, 0)
  /\ OneLine(3)
  /\ OlItemLine(LineOf(3), 0, 1)
  /\ ItemNumberOf(LineOf(3), 0) = ItemNumberOf(LineOf(1), 0) + 1
  /\ Len(calls[3].before.list_stack) = 2
  /\ Len(list_stack) = 1
  /\ calls[3].ret[3] = <<"<", "l", "i", ">">>

\* what a call that ended in state st returned: nothing if it raised
Ret(st) == IF st.raised THEN <<>> ELSE st.result
\* the last line of t is not empty, has at most 80 characters and no line feed
\* after it
OpenShortLastLine(t) ==
  /\ t # <<>>
  /\ Last(t) # NL
  /\ Len(Last(Split(t))) <= 80
\* the fragments returned when the calls so far are repeated with a line feed
\* fed before the flush, as a chunk of its own
WithLineFeedChunk ==
  LET added == AddChunkTo(Last(calls).before, <<NL>>)
  IN Returned(Front(calls)) \o Ret(added) \o Ret(FlushOf(added))
\* the same with the line feed appended to the last chunk
WithLineFeedAppended ==
  LET n == Len(calls) - 1
      added == AddChunkTo(calls[n].before, calls[n].chunk \o <<NL>>)
  IN Returned(SubSeq(calls, 1, n - 1)) \o Ret(added) \o Ret(FlushOf(added))
\* C36: for a text T whose last line is not empty, has at most 80 characters
\* and is not newline-terminated, feeding T and calling flush() gives the same
\* concatenated output as feeding T followed by a line feed and calling
\* flush(), whether the line feed comes as a chunk of its own or at the end of
\* the last chunk.
C36_FlushEqualsLineFeed ==
  (FlushedOnce /\ OpenShortLastLine(Text))
    => /\ Join(Out) = Join(WithLineFeedChunk)
       /\ Join(Out) = Join(WithLineFeedAppended)

\* call i - 1 ended in a forced dispatch that returned, and call i feeds a
\* line feed and nothing else
LineFeedAfterForced(i) ==
  /\ i > 1
  /\ calls[i - 1].op = "add_chunk"
  /\ ~calls[i - 1].raised
  /\ DispatchedBy(i - 1, "forced") # {}
  /\ calls[i].op = "add_chunk"
  /\ calls[i].chunk = <<NL>>
\* call i - 1 repeated with the line feed at the end of its chunk
ForcedWithLineFeed(i) == AddChunkTo(calls[i - 1].before, calls[i - 1].chunk \o <<NL>>)
\* the line feed after a forced dispatch is dispatched as an empty line
EmptyLineDispatched(i) ==
  /\ After(i - 1).current_line = <<>>
  /\ ~calls[i].raised
  /\ calls[i].dispatched = << [line |-> <<>>, by |-> "newline"] >>
  /\ calls[i].ret = <<TagBr>>
  /\ ~After(i).in_list_item
  /\ After(i).list_stack = calls[i].before.list_stack
\* C37: as stated: after a forced dispatch has emptied current_line, a
\* line feed fed next is dispatched as an empty line, '<br>' is returned and
\* in_list_item cleared, whereas the same line fed together with its line feed
\* in one chunk returns no '<br>'.
C37_ResidueIsFreshLine ==
  \A i \in Latest :
     LineFeedAfterForced(i)
       => /\ EmptyLineDispatched(i)
          /\ ~ForcedWithLineFeed(i).raised
          /\ \A f \in 1..Len(ForcedWithLineFeed(i).result) :
                ForcedWithLineFeed(i).result[f] # TagBr
\* C37, amended: the same line fed together with its line feed in one chunk
\* returns exactly what the call that ended in the forced dispatch returned,
\* with no '<br>' for the line feed.
C37_ResidueIsFreshLine_Amended ==
  \A i \in Latest :
     LineFeedAfterForced(i)
       => /\ EmptyLineDispatched(i)
          /\ ~ForcedWithLineFeed(i).raised
          /\ ForcedWithLineFeed(i).result = calls[i - 1].ret
          /\ ForcedWithLineFeed(i).current_line = <<>>
\* a line of more than 80 characters was dispatched early inside a list, and
\* the line feed that followed returned '<br>'
C37_Witness ==
  /\ Len(calls) >= 3
  /\ LineFeedAfterForced(Len(calls))
  /\ calls[Len(calls) - 1].ret # <<>>
  /\ Last(calls).ret = <<TagBr>>
  /\ list_stack # <<>>

\* C38: between operations buffer is empty and current_line holds no line
\* feed: current_line alone carries the unconsumed input across calls.
C38_BufferEmptyBetweenCalls ==
  /\ buffer = <<>>
  /\ \A k \in 1..Len(current_line) : current_line[k] # NL

====
